---- MODULE Spec2Model ----
(***************************************************************************)
(* A model of readthedocs/projects/models.py: the ProjectManager           *)
(* visibility filter, Project.save and its per-object grants, the checkout *)
(* lock handed out by Project.repo_lock, the subproject relationship       *)
(* operations, get_default_version, version_from_branch_name,              *)
(* get_default_branch and conf_file.                                       *)
(***************************************************************************)
EXTENDS Integers, Sequences, FiniteSets, TLC

(***************************************************************************)
(* Bounds and the finite universes the model draws its inputs from.        *)
(***************************************************************************)
NumProjects == 2
Projects == 1..NumProjects

\* Concurrent build processes (workers) of the host.
NumProcs == 2
Procs == 1..NumProcs

\* repo_lock(self, timeout=5, polling_interval=0.2): the defaults, in tenths
\* of a second.
DEFAULT_TIMEOUT == 50
DEFAULT_POLLING_INTERVAL == 2

\* django.contrib.auth users that can log in; "anon" is the AnonymousUser
\* object; NoUser is Python's None (the default of the user argument).
AuthUsers == {"alice"}
AnonymousUser == "anon"
NoUser == "None"
UserArgs == AuthUsers \cup {AnonymousUser, NoUser}

\* projects.constants: PUBLIC, PROTECTED, PRIVATE
PUBLIC == "public"
PROTECTED == "protected"
PRIVATE == "private"
PRIVACY_CHOICES == {PUBLIC, PROTECTED, PRIVATE}

VARIABLES
    project,       \* the Project table: row of each project (exists, slug, skip, privacy_level)
    users,         \* Project.users, the owners many-to-many relation
    perms,         \* guardian per-object 'view_project' grants, as <<user, project>>
    global_perm,   \* users for whom has_perm('projects.view_project') is true
    queryset,      \* what a public/protected/private call on the current tables returned
    save_error,    \* whether the last call was a Project.save that raised, and on which project
    lockfiles,     \* names of the lock files present on the build host
    pc,            \* where each process is in its 'with project.repo_lock():' block
    target,        \* the project each process is locking (0: none)
    lockobj,       \* the Lock object each process got from repo_lock
    elapsed,       \* tenths of a second each process has waited in its pending acquire
    relationship,  \* the ProjectRelationship table: number of rows per <<parent, child>>
    relpc,         \* where each process is in add_subproject / remove_subproject
    default_version, \* Project.default_version of each project
    versions,      \* the version rows: state of the version of each project and slug
    returned,      \* what the last version or branch call on the current rows returned
    identifier,    \* Version.identifier of the version of each project and slug
    default_branch, \* Project.default_branch of each project
    repo_type,     \* Project.repo_type of each project
    checkout_root, \* checkout_path(version): DOCROOT/<slug>/checkouts/<version>
    conf_py_file,  \* Project.conf_py_file ("" when not set)
    tree,          \* the checkout: which directories exist and which hold a conf.py
    listdir,       \* the order in which os.walk lists the top-level directories
    conf           \* what a conf_file call on the current checkout did

visVars == <<project, users, perms, global_perm, queryset, save_error>>

lockVars == <<lockfiles, pc, target, lockobj, elapsed>>

relVars == <<relationship, relpc>>

verVars == <<default_version, versions, returned, identifier, default_branch, repo_type>>

branchVars == <<identifier, default_branch, repo_type>>

confVars == <<checkout_root, conf_py_file, tree, listdir, conf>>

vars == <<project, users, perms, global_perm, queryset, save_error,
          lockfiles, pc, target, lockobj, elapsed,
          relationship, relpc,
          default_version, versions, returned, identifier, default_branch, repo_type,
          checkout_root, conf_py_file, tree, listdir, conf>>

NoRow == [exists |-> FALSE, slug |-> <<>>, skip |-> FALSE, privacy_level |-> PUBLIC]
NoError == [raised |-> FALSE, project |-> 0]
NoQuery == [op |-> "none", user |-> NoUser, result |-> {}]
NoLock == [name |-> 0, timeout |-> 0, polling_interval |-> 0]

\* The <<parent, child>> arguments the relationship operations are called with.
Edges == {<<1, 2>>, <<2, 1>>}
Idle == [at |-> "idle", edge |-> <<0, 0>>]

\* Slugs a version row can carry, and the values default_version is set to
\* ("v2" is a slug no version row carries).
LATEST == "latest"
VersionSlugs == {LATEST, "v1"}
DefaultVersions == VersionSlugs \cup {"v2"}
NoCall == [op |-> "none", project |-> 0, value |-> "None"]

\* Branch names and version identifiers are paths, kept as the sequences of
\* their "/"-separated parts: "master" is <<"master">> and
\* "remotes/origin/master" is <<"remotes", "origin", "master">>.
Branches == {<<"master">>, <<"dev">>}
Identifiers == {<<"master">>, <<"remotes", "origin", "master">>}
NoIdentifier == <<>>

\* The orders in which the store can hand out the version rows of a project.
VersionOrders ==
    {o \in [1..Cardinality(VersionSlugs) -> VersionSlugs] :
        \A a, b \in DOMAIN o : a # b => o[a] # o[b]}

\* Project.default_branch: None (the default) and '' are the unset values.
None == "None"
DefaultBranches == {None, "", "dev", "stable"}

\* Project.repo_type values: "git" and "hg" have a backend in
\* vcs_support.backends.backend_cls, "cvs" has none.
RepoTypes == {"git", "hg", "cvs"}
backend_cls ==
    [t \in {"git", "hg"} |->
        [fallback_branch |-> IF t = "git" THEN "master" ELSE "default"]]

\* file.find('doc', 70): the index the search for "doc" starts at.
DOC_SEARCH_START == 70

\* Paths are sequences of characters.
Chars(n, c) == [k \in 1..n |-> c]
S_foo == <<"f", "o", "o">>
S_docs == <<"/", "d", "o", "c", "s">>
S_doc == <<"/", "d", "o", "c">>
S_src == <<"/", "s", "r", "c">>
S_en == <<"/", "e", "n">>
S_conf_py == <<"/", "c", "o", "n", "f", ".", "p", "y">>
S_docs_conf_py == <<"d", "o", "c", "s">> \o S_conf_py
S_needle == <<"d", "o", "c">>

\* The checkout roots tried: "foo", and roots that put the "doc" of
\* <root>/docs/conf.py just before and exactly at DOC_SEARCH_START.
CheckoutRoots ==
    {S_foo, Chars(DOC_SEARCH_START - 2, "x"), Chars(DOC_SEARCH_START - 1, "x")}

\* A checkout: conf.py at the top or not; docs/ and doc/ absent, present
\* without a conf.py, or holding one; docs/en/conf.py and src/conf.py or not.
Trees ==
    {t \in [top : BOOLEAN, docs : {"absent", "dir", "conf"}, docs_en : BOOLEAN,
            doc : {"absent", "dir", "conf"}, src : BOOLEAN] :
        t.docs_en => t.docs # "absent"}
EmptyTree == [top |-> FALSE, docs |-> "absent", docs_en |-> FALSE,
              doc |-> "absent", src |-> FALSE]
ListdirOrders ==
    {o \in [1..3 -> {"docs", "doc", "src"}] : \A a, b \in 1..3 : a # b => o[a] # o[b]}
NoPath == [kind |-> "None", path |-> <<>>]
NoConf == [op |-> "none", files |-> <<>>, value |-> NoPath]

Init ==
    /\ project = [p \in Projects |-> NoRow]
    /\ users = [p \in Projects |-> {}]
    /\ perms = {}
    /\ global_perm = {}
    /\ queryset = NoQuery
    /\ save_error = NoError
    /\ lockfiles = {}
    /\ pc = [i \in Procs |-> "idle"]
    /\ target = [i \in Procs |-> 0]
    /\ lockobj = [i \in Procs |-> NoLock]
    /\ elapsed = [i \in Procs |-> 0]
    /\ relationship = [e \in Edges |-> 0]
    /\ relpc = [i \in Procs |-> Idle]
    /\ default_version = [p \in Projects |-> LATEST]
    /\ versions = [p \in Projects |-> [s \in VersionSlugs |-> "absent"]]
    /\ returned = NoCall
    /\ identifier = [p \in Projects |-> [s \in VersionSlugs |-> NoIdentifier]]
    /\ default_branch = [p \in Projects |-> None]
    /\ repo_type = [p \in Projects |-> "git"]
    /\ checkout_root = S_foo
    /\ conf_py_file = <<>>
    /\ tree = EmptyTree
    /\ listdir = <<"docs", "doc", "src">>
    /\ conf = NoConf

(***************************************************************************)
(* ProjectManager                                                          *)
(***************************************************************************)
Objects == {p \in Projects : project[p].exists}

is_authenticated(user) == user \in AuthUsers

\* Mutant: the model-wide permission is never seen.
has_perm_never(user) == FALSE

has_perm(user) == user \in global_perm

\* guardian.shortcuts.get_objects_for_user(user, 'projects.view_project')
get_objects_for_user(user) == {p \in Objects : <<user, p>> \in perms}

\* _filter_queryset(self, user, privacy_level); privacy_level is the tuple of
\* levels (a single string is wrapped into a one-element tuple first).
\* Mutant: the per-object grants are not merged in.
_filter_queryset_no_grants(user, privacy_level) ==
    LET base == {p \in Objects : project[p].privacy_level \in privacy_level}
    IN  IF user = NoUser
            THEN base
            ELSE LET widened == IF has_perm(user) THEN Objects ELSE base
                 IN  {p \in widened : ~project[p].skip}

\* Mutant: the final skip filter is left out.
_filter_queryset_no_skip_filter(user, privacy_level) ==
    LET base == {p \in Objects : project[p].privacy_level \in privacy_level}
    IN  IF user = NoUser
            THEN base
            ELSE LET widened == IF has_perm(user) THEN Objects ELSE base
                 IN  IF is_authenticated(user)
                         THEN get_objects_for_user(user) \cup widened
                         ELSE widened

_filter_queryset(user, privacy_level) ==
    LET base == {p \in Objects : project[p].privacy_level \in privacy_level}
    IN  IF user = NoUser
            THEN base
            ELSE LET widened == IF has_perm(user) THEN Objects ELSE base
                     merged == IF is_authenticated(user)
                                   THEN get_objects_for_user(user) \cup widened
                                   ELSE widened
                 IN  {p \in merged : ~project[p].skip}

public(user) == _filter_queryset(user, {PUBLIC})

protected(user) == _filter_queryset(user, {PUBLIC, PROTECTED})

private(user) == _filter_queryset(user, {PRIVATE})

Tiers == {"public", "protected", "private"}

Visible(user, tier) ==
    CASE tier = "public" -> public(user)
      [] tier = "protected" -> protected(user)
      [] tier = "private" -> private(user)

\* A caller runs one of the three manager queries.  The result is kept while
\* the tables stay as they were read; every write below drops it.
Query(user, tier) ==
    /\ queryset' = [op |-> tier, user |-> user, result |-> Visible(user, tier)]
    /\ save_error' = NoError
    /\ UNCHANGED <<project, users, perms, global_perm, lockVars, relVars, verVars, confVars>>

(***************************************************************************)
(* Project.save, the owners relation and the permission provider           *)
(***************************************************************************)
\* django.template.defaultfilters.slugify on a sequence of characters:
\* characters that are not word characters, whitespace or hyphens are
\* removed, the rest is stripped of surrounding whitespace and lowercased,
\* and every run of hyphens and whitespace becomes one hyphen.
Digit(n) == <<"0", "1", "2", "3", "4", "5", "6", "7", "8", "9">>[n + 1]
WordChars == {"D", "d", "o", "c", "_"} \cup {Digit(n) : n \in 0..9}
KeptBySlugify(c) == c \in WordChars \cup {" ", "-"}
Lower(c) == IF c = "D" THEN "d" ELSE c

RECURSIVE StripLeft(_)
StripLeft(s) ==
    IF s # <<>> /\ Head(s) = " " THEN StripLeft(Tail(s)) ELSE s

RECURSIVE StripRight(_)
StripRight(s) ==
    IF s # <<>> /\ s[Len(s)] = " " THEN StripRight(SubSeq(s, 1, Len(s) - 1)) ELSE s

RECURSIVE Hyphenate(_)
Hyphenate(s) ==
    IF s = <<>> THEN <<>>
    ELSE IF Head(s) \in {"-", " "}
        THEN IF Len(s) > 1 /\ s[2] \in {"-", " "}
                 THEN Hyphenate(Tail(s))
                 ELSE <<"-">> \o Hyphenate(Tail(s))
        ELSE <<Head(s)>> \o Hyphenate(Tail(s))

slugify(value) ==
    LET kept == StripRight(StripLeft(SelectSeq(value, KeptBySlugify)))
    IN  Hyphenate([k \in 1..Len(kept) |-> Lower(kept[k])])

\* The names projects are saved with: for each project its own name with a
\* slug (slugs are unique), and names that slugify to the empty string.
GoodName(p) == <<"D", "o", "c", " ", Digit(p)>>
BadNames == {<<"!", "?">>, <<" ", "!", " ">>}
Names(p) == {GoodName(p)} \cup BadNames

\* The names a save of project p is tried with: save reads the name only
\* when the instance has no slug.
NamesRead(p) == IF project[p].slug = <<>> THEN Names(p) ELSE {GoodName(p)}

\* Mutant: the check of the derived slug is left out.
save_slug_unchecked(slug, name) ==
    [slug |-> IF slug = <<>> THEN slugify(name) ELSE slug, raises |-> FALSE]

\* Project.save, lines 266-269: the slug the instance is saved with, and
\* whether the method raises before the row is written.
save_slug(slug, name) ==
    IF slug = <<>>
        THEN [slug |-> slugify(name), raises |-> slugify(name) = <<>>]
        ELSE [slug |-> slug, raises |-> FALSE]

\* Mutant: the grants on the project are reset to its current owners.
save_perms_owners_only(p) ==
    {g \in perms : g[2] # p} \cup {<<owner, p>> : owner \in users[p]}

\* Project.save, lines 271-272: assign('view_project', owner, self) for every
\* owner.
save_perms(p) == perms \cup {<<owner, p>> : owner \in users[p]}

\* Project.save on the instance of project p (a new instance has no slug, a
\* loaded one has its row's): derives the slug and raises when it is empty;
\* otherwise writes the row, then assigns 'view_project' on the project to
\* every current owner.  The other fields written are the caller's inputs
\* (of the columns, the row of the model keeps those a claim reads).
Save(p, name, skip, privacy_level) ==
    LET s == save_slug(project[p].slug, name)
    IN  /\ IF s.raises
               THEN /\ save_error' = [raised |-> TRUE, project |-> p]
                    /\ UNCHANGED <<project, perms>>
               ELSE /\ project' = [project EXCEPT ![p] =
                                      [exists |-> TRUE, slug |-> s.slug, skip |-> skip,
                                       privacy_level |-> privacy_level]]
                    /\ perms' = save_perms(p)
                    /\ save_error' = NoError
        /\ queryset' = NoQuery
        /\ UNCHANGED <<users, global_perm, lockVars, relVars, verVars, confVars>>

\* project.users.add(user): the relation needs a saved row on both sides.
AddOwner(p, user) ==
    /\ project[p].exists
    /\ user \notin users[p]
    /\ users' = [users EXCEPT ![p] = @ \cup {user}]
    /\ queryset' = NoQuery
    /\ save_error' = NoError
    /\ UNCHANGED <<project, perms, global_perm, lockVars, relVars, verVars, confVars>>

\* project.users.remove(user)
RemoveOwner(p, user) ==
    /\ user \in users[p]
    /\ users' = [users EXCEPT ![p] = @ \ {user}]
    /\ queryset' = NoQuery
    /\ save_error' = NoError
    /\ UNCHANGED <<project, perms, global_perm, lockVars, relVars, verVars, confVars>>

\* The permission provider: an administrator gives or takes the model-wide
\* 'projects.view_project' permission.
SetGlobalPerm(user, on) ==
    /\ (user \in global_perm) # on
    /\ global_perm' = IF on THEN global_perm \cup {user} ELSE global_perm \ {user}
    /\ queryset' = NoQuery
    /\ save_error' = NoError
    /\ UNCHANGED <<project, users, perms, lockVars, relVars, verVars, confVars>>

NextVisibility ==
    \/ \E p \in Projects : \E name \in NamesRead(p), skip \in BOOLEAN, lvl \in PRIVACY_CHOICES :
          Save(p, name, skip, lvl)
    \/ \E p \in Projects, u \in AuthUsers : AddOwner(p, u)
    \/ \E p \in Projects, u \in AuthUsers : RemoveOwner(p, u)
    \/ \E u \in AuthUsers, on \in BOOLEAN : SetGlobalPerm(u, on)
    \/ \E u \in UserArgs, t \in Tiers : Query(u, t)

SpecVisibility == Init /\ [][NextVisibility]_vars

\* Sequences of save, add-owner and remove-owner operations, with the
\* filters asked by the users who can be owners.
NextOwnership ==
    \/ \E p \in Projects : \E name \in NamesRead(p), skip \in BOOLEAN, lvl \in PRIVACY_CHOICES :
          Save(p, name, skip, lvl)
    \/ \E p \in Projects, u \in AuthUsers : AddOwner(p, u)
    \/ \E p \in Projects, u \in AuthUsers : RemoveOwner(p, u)
    \/ \E u \in AuthUsers, t \in Tiers : Query(u, t)

SpecOwnership == Init /\ [][NextOwnership]_vars

(***************************************************************************)
(* The checkout lock: Project.repo_lock and vcs_support.utils.Lock         *)
(***************************************************************************)
\* Lock(project, timeout, polling_interval): a lock backed by a marker file
\* keyed by the project.
Lock(proj, timeout, polling_interval) ==
    [name |-> proj, timeout |-> timeout, polling_interval |-> polling_interval]

\* Mutant: one lock name for every project.
repo_lock_shared(self, timeout, polling_interval) ==
    Lock(1, timeout, polling_interval)

\* Mutant: the polling interval is passed where the timeout belongs.
repo_lock_wrong_timeout(self, timeout, polling_interval) ==
    Lock(self, polling_interval, polling_interval)

repo_lock(self, timeout, polling_interval) ==
    Lock(self, timeout, polling_interval)

\* 'with project.repo_lock():' is entered: the Lock is built and acquire starts.
Acquire(i, p) ==
    /\ pc[i] = "idle"
    /\ pc' = [pc EXCEPT ![i] = "acquiring"]
    /\ target' = [target EXCEPT ![i] = p]
    /\ lockobj' = [lockobj EXCEPT ![i] =
                      repo_lock(p, DEFAULT_TIMEOUT, DEFAULT_POLLING_INTERVAL)]
    /\ elapsed' = [elapsed EXCEPT ![i] = 0]
    /\ UNCHANGED <<lockfiles, visVars, relVars, verVars, confVars>>

\* Mutant: the marker is created without looking for an existing one.
TryLock_unchecked(i) ==
    /\ pc[i] = "acquiring"
    /\ lockfiles' = lockfiles \cup {lockobj[i].name}
    /\ pc' = [pc EXCEPT ![i] = "held"]
    /\ elapsed' = [elapsed EXCEPT ![i] = 0]
    /\ UNCHANGED <<target, lockobj, visVars, relVars, verVars, confVars>>

\* acquire, the marker is absent: create it (create-exclusive) and enter the
\* guarded section.
TryLock(i) ==
    /\ pc[i] = "acquiring"
    /\ lockobj[i].name \notin lockfiles
    /\ lockfiles' = lockfiles \cup {lockobj[i].name}
    /\ pc' = [pc EXCEPT ![i] = "held"]
    /\ elapsed' = [elapsed EXCEPT ![i] = 0]
    /\ UNCHANGED <<target, lockobj, visVars, relVars, verVars, confVars>>

\* acquire, the marker is present and the timeout has not elapsed: sleep one
\* polling interval and retry.
Poll(i) ==
    /\ pc[i] = "acquiring"
    /\ lockobj[i].name \in lockfiles
    /\ elapsed[i] < lockobj[i].timeout
    /\ elapsed' = [elapsed EXCEPT ![i] = @ + lockobj[i].polling_interval]
    /\ UNCHANGED <<lockfiles, pc, target, lockobj, visVars, relVars, verVars, confVars>>

\* acquire, the marker is present and the timeout has elapsed: LockTimeoutError.
Timeout(i) ==
    /\ pc[i] = "acquiring"
    /\ lockobj[i].name \in lockfiles
    /\ elapsed[i] >= lockobj[i].timeout
    /\ pc' = [pc EXCEPT ![i] = "failed"]
    /\ UNCHANGED <<lockfiles, target, lockobj, elapsed, visVars, relVars, verVars, confVars>>

\* Mutant: the marker is removed on normal return only.
Exit_keep_on_error(i, how) ==
    /\ pc[i] = "held"
    /\ lockfiles' = IF how = "returned" THEN lockfiles \ {lockobj[i].name} ELSE lockfiles
    /\ pc' = [pc EXCEPT ![i] = how]
    /\ UNCHANGED <<target, lockobj, elapsed, visVars, relVars, verVars, confVars>>

\* The guarded section is left, by normal return or by an error raised inside
\* it: the structured cleanup releases the lock.
Exit(i, how) ==
    /\ pc[i] = "held"
    /\ lockfiles' = lockfiles \ {lockobj[i].name}
    /\ pc' = [pc EXCEPT ![i] = how]
    /\ UNCHANGED <<target, lockobj, elapsed, visVars, relVars, verVars, confVars>>

\* The caller goes on after the block (or after the error reached it): no
\* cleanup runs for a lock that was never obtained.
Finish(i) ==
    /\ pc[i] \in {"returned", "raised", "failed"}
    /\ pc' = [pc EXCEPT ![i] = "idle"]
    /\ target' = [target EXCEPT ![i] = 0]
    /\ lockobj' = [lockobj EXCEPT ![i] = NoLock]
    /\ elapsed' = [elapsed EXCEPT ![i] = 0]
    /\ UNCHANGED <<lockfiles, visVars, relVars, verVars, confVars>>

NextLock ==
    \/ \E i \in Procs, p \in Projects : Acquire(i, p)
    \/ \E i \in Procs : TryLock(i)
    \/ \E i \in Procs : Poll(i)
    \/ \E i \in Procs : Timeout(i)
    \/ \E i \in Procs, how \in {"returned", "raised"} : Exit(i, how)
    \/ \E i \in Procs : Finish(i)

SpecLock == Init /\ [][NextLock]_vars


(***************************************************************************)
(* Project.add_subproject / Project.remove_subproject                      *)
(***************************************************************************)
\* add_subproject, first half of ProjectRelationship.objects.get_or_create:
\* get(parent=self, child=child).  One row: it is returned.  No row: the
\* caller goes on to create one.  Several rows: MultipleObjectsReturned.
\* ProjectRelationship declares no uniqueness of (parent, child), so nothing
\* in the table makes the get and the create one step.
add_subproject_get(i, self, child) ==
    /\ relpc[i].at = "idle"
    /\ relpc' = [relpc EXCEPT ![i] =
                    [at |-> CASE relationship[<<self, child>>] = 0 -> "create"
                              [] relationship[<<self, child>>] = 1 -> "returned"
                              [] OTHER -> "raised",
                     edge |-> <<self, child>>]]
    /\ UNCHANGED <<relationship, visVars, lockVars, verVars, confVars>>

\* add_subproject, second half of get_or_create: insert the row and return it.
add_subproject_create(i) ==
    /\ relpc[i].at = "create"
    /\ relationship' = [relationship EXCEPT ![relpc[i].edge] = @ + 1]
    /\ relpc' = [relpc EXCEPT ![i].at = "returned"]
    /\ UNCHANGED <<visVars, lockVars, verVars, confVars>>

\* remove_subproject: filter(parent=self, child=child).delete(), one statement.
remove_subproject(i, self, child) ==
    /\ relpc[i].at = "idle"
    /\ relationship' = [relationship EXCEPT ![<<self, child>>] = 0]
    /\ relpc' = [relpc EXCEPT ![i] = [at |-> "returned", edge |-> <<self, child>>]]
    /\ UNCHANGED <<visVars, lockVars, verVars, confVars>>

\* The call is over (it returned, or its error reached the caller).
RelationshipDone(i) ==
    /\ relpc[i].at \in {"returned", "raised"}
    /\ relpc' = [relpc EXCEPT ![i] = Idle]
    /\ UNCHANGED <<relationship, visVars, lockVars, verVars, confVars>>

NextRelationship ==
    \/ \E i \in Procs, e \in Edges : add_subproject_get(i, e[1], e[2])
    \/ \E i \in Procs : add_subproject_create(i)
    \/ \E i \in Procs, e \in Edges : remove_subproject(i, e[1], e[2])
    \/ \E i \in Procs : RelationshipDone(i)

SpecRelationship == Init /\ [][NextRelationship]_vars


(***************************************************************************)
(* Project.get_default_version                                             *)
(***************************************************************************)
\* self.versions.filter(slug=slug, active=True): the version rows of this
\* project with that slug that are active.
versions_filter_active(self, slug) ==
    {<<p, s>> \in {self} \X VersionSlugs : s = slug /\ versions[p][s] = "active"}

\* Mutant: the active flag is not looked at.
get_default_version_any_state(self) ==
    IF default_version[self] = LATEST
        THEN default_version[self]
        ELSE IF \E s \in VersionSlugs :
                    s = default_version[self] /\ versions[self][s] # "absent"
                 THEN default_version[self]
                 ELSE LATEST

get_default_version(self) ==
    IF default_version[self] = LATEST
        THEN default_version[self]
        ELSE IF versions_filter_active(self, default_version[self]) # {}
                 THEN default_version[self]
                 ELSE LATEST

\* A caller asks for the default version of a project.  The answer is kept
\* while the rows stay as they were read; every write below drops it.
GetDefaultVersion(p) ==
    /\ returned' = [op |-> "get_default_version", project |-> p,
                    value |-> get_default_version(p)]
    /\ UNCHANGED <<default_version, versions, branchVars, visVars, lockVars, relVars, confVars>>

\* The project's default_version field is set to another slug.
SetDefaultVersion(p, slug) ==
    /\ default_version[p] # slug
    /\ default_version' = [default_version EXCEPT ![p] = slug]
    /\ returned' = NoCall
    /\ UNCHANGED <<versions, branchVars, visVars, lockVars, relVars, confVars>>

\* The version store: a version row of the project is created, activated,
\* deactivated or deleted.
SetVersion(p, slug, state) ==
    /\ versions[p][slug] # state
    /\ versions' = [versions EXCEPT ![p][slug] = state]
    /\ returned' = NoCall
    /\ UNCHANGED <<default_version, branchVars, visVars, lockVars, relVars, confVars>>

NextVersion ==
    \/ \E p \in Projects : GetDefaultVersion(p)
    \/ \E p \in Projects, slug \in DefaultVersions : SetDefaultVersion(p, slug)
    \/ \E p \in Projects, slug \in VersionSlugs,
          state \in {"absent", "active", "inactive"} : SetVersion(p, slug, state)

SpecVersion == Init /\ [][NextVersion]_vars

(***************************************************************************)
(* Project.version_from_branch_name                                        *)
(***************************************************************************)
\* 'remotes/origin/%s' % branch
remote_identifier(branch) == <<"remotes", "origin">> \o branch

\* self.versions.filter(active=True, identifier=ident): the active version
\* rows of this project with that identifier.
versions_filter_identifier(self, ident) ==
    {<<p, s>> \in {self} \X VersionSlugs :
        versions[p][s] = "active" /\ identifier[p][s] = ident}

\* queryset[0]: the first row of the set in the store's order; IndexError
\* when the set is empty.
first_row(rows, order) ==
    IF rows = {} THEN "IndexError"
    ELSE LET k == CHOOSE i \in DOMAIN order :
                      /\ \E r \in rows : r[2] = order[i]
                      /\ \A j \in DOMAIN order :
                             (\E r \in rows : r[2] = order[j]) => i <= j
         IN  order[k]

\* (filter(identifier=branch) | filter(identifier='remotes/origin/<branch>'))[0]:
\* the two filters are or-ed into one query, whose first row in the store's
\* order is taken; the IndexError of an empty result is turned into None.
version_from_branch_name(self, branch, order) ==
    LET row == first_row(versions_filter_identifier(self, branch)
                             \cup versions_filter_identifier(self, remote_identifier(branch)),
                         order)
    IN  IF row = "IndexError" THEN None ELSE row

\* A caller asks for the version of a branch; the store hands out the rows in
\* one of its orders.  The value is the slug of the row returned.
VersionFromBranchName(p, branch, order) ==
    /\ returned' = [op |-> "version_from_branch_name", project |-> p,
                    branch |-> branch,
                    value |-> version_from_branch_name(p, branch, order)]
    /\ UNCHANGED <<default_version, versions, branchVars,
                   visVars, lockVars, relVars, confVars>>

\* The version store: the version row of a project and slug is written with
\* an identifier, active or not.
SaveVersion(p, slug, active, ident) ==
    /\ versions' = [versions EXCEPT ![p][slug] = IF active THEN "active" ELSE "inactive"]
    /\ identifier' = [identifier EXCEPT ![p][slug] = ident]
    /\ <<versions', identifier'>> # <<versions, identifier>>
    /\ returned' = NoCall
    /\ UNCHANGED <<default_version, default_branch, repo_type,
                   visVars, lockVars, relVars, confVars>>

\* The version store: the version row of a project and slug is deleted.
DeleteVersion(p, slug) ==
    /\ versions[p][slug] # "absent"
    /\ versions' = [versions EXCEPT ![p][slug] = "absent"]
    /\ identifier' = [identifier EXCEPT ![p][slug] = NoIdentifier]
    /\ returned' = NoCall
    /\ UNCHANGED <<default_version, default_branch, repo_type,
                   visVars, lockVars, relVars, confVars>>

NextBranchName ==
    \/ \E p \in Projects, branch \in Branches, order \in VersionOrders :
          VersionFromBranchName(p, branch, order)
    \/ \E p \in Projects, slug \in VersionSlugs, active \in BOOLEAN,
          ident \in Identifiers : SaveVersion(p, slug, active, ident)
    \/ \E p \in Projects, slug \in VersionSlugs : DeleteVersion(p, slug)

SpecBranchName == Init /\ [][NextBranchName]_vars

(***************************************************************************)
(* Project.vcs_repo and Project.get_default_branch                         *)
(***************************************************************************)
\* An object reference that may be None is kept as a set: {} is None and
\* {x} is the object x.
NoObject == {}

\* backend_cls.get(self.repo_type): None when the type has no backend.
backend_cls_get(type) ==
    IF type \in DOMAIN backend_cls THEN {backend_cls[type]} ELSE NoObject

\* Project.vcs_repo: None when there is no backend for the repo_type, else
\* the backend's repository object (of which the model keeps the
\* fallback_branch).
vcs_repo(self) ==
    LET backend == backend_cls_get(repo_type[self])
    IN  IF backend = NoObject THEN NoObject ELSE backend

\* Python truth of a string-or-None value.
Truthy(value) == value \notin {None, ""}

\* Project.get_default_branch: what it returns or raises, and whether it
\* called vcs_repo.  Reading fallback_branch of None raises AttributeError.
get_default_branch(self) ==
    IF Truthy(default_branch[self])
        THEN [value |-> default_branch[self], raised |-> None, resolved |-> FALSE]
        ELSE LET repo == vcs_repo(self)
             IN  IF repo = NoObject
                     THEN [value |-> None, raised |-> "AttributeError", resolved |-> TRUE]
                     ELSE [value |-> (CHOOSE r \in repo : TRUE).fallback_branch,
                           raised |-> None, resolved |-> TRUE]

GetDefaultBranch(p) ==
    /\ returned' = [op |-> "get_default_branch", project |-> p,
                    result |-> get_default_branch(p)]
    /\ UNCHANGED <<default_version, versions, branchVars,
                   visVars, lockVars, relVars, confVars>>

\* The project's default_branch field is set or cleared.
SetDefaultBranch(p, branch) ==
    /\ default_branch[p] # branch
    /\ default_branch' = [default_branch EXCEPT ![p] = branch]
    /\ returned' = NoCall
    /\ UNCHANGED <<default_version, versions, identifier, repo_type,
                   visVars, lockVars, relVars, confVars>>

\* The project's repo_type field is set; the column takes any short string.
SetRepoType(p, type) ==
    /\ repo_type[p] # type
    /\ repo_type' = [repo_type EXCEPT ![p] = type]
    /\ returned' = NoCall
    /\ UNCHANGED <<default_version, versions, identifier, default_branch,
                   visVars, lockVars, relVars, confVars>>

NextDefaultBranch ==
    \/ \E p \in Projects : GetDefaultBranch(p)
    \/ \E p \in Projects, branch \in DefaultBranches : SetDefaultBranch(p, branch)
    \/ \E p \in Projects, type \in RepoTypes : SetRepoType(p, type)

SpecDefaultBranch == Init /\ [][NextDefaultBranch]_vars


(***************************************************************************)
(* Project.conf_file and the searches it uses                              *)
(***************************************************************************)
Min(S) == CHOOSE x \in S : \A y \in S : x <= y

\* str.find(sub, start): the lowest index i >= start (counted from 0) at
\* which sub occurs in s, or -1.
str_find(s, sub, start) ==
    LET at == {i \in start..(Len(s) - Len(sub)) :
                   \A k \in 1..Len(sub) : s[i + k] = sub[k]}
    IN  IF at = {} THEN -1 ELSE Min(at)

\* os.path.join(a, b) for a relative b, written with its leading separator.
path_join(a, b) == a \o b

checkout_path == checkout_root

\* full_doc_path: the first of docs, doc, Doc that exists under the checkout
\* (no checkout of the model has a Doc directory), else the checkout itself.
full_doc_path ==
    IF tree.docs # "absent" THEN path_join(checkout_path, S_docs)
    ELSE IF tree.doc # "absent" THEN path_join(checkout_path, S_doc)
    ELSE checkout_path

\* os.walk from a directory, keeping the conf.py files (fnmatch of 'conf.py'):
\* the directory's own file first, then its subdirectories.
walk_docs ==
    (IF tree.docs = "conf"
         THEN <<path_join(path_join(checkout_path, S_docs), S_conf_py)>> ELSE <<>>)
    \o (IF tree.docs_en
            THEN <<path_join(path_join(path_join(checkout_path, S_docs), S_en), S_conf_py)>>
            ELSE <<>>)

walk_doc ==
    IF tree.doc = "conf"
        THEN <<path_join(path_join(checkout_path, S_doc), S_conf_py)>> ELSE <<>>

walk_src ==
    IF tree.src
        THEN <<path_join(path_join(checkout_path, S_src), S_conf_py)>> ELSE <<>>

walk_dir(name) ==
    CASE name = "docs" -> walk_docs
      [] name = "doc" -> walk_doc
      [] name = "src" -> walk_src

walk_checkout ==
    (IF tree.top THEN <<path_join(checkout_path, S_conf_py)>> ELSE <<>>)
    \o walk_dir(listdir[1]) \o walk_dir(listdir[2]) \o walk_dir(listdir[3])

\* find('conf.py', version): the matches under full_doc_path(version).
find ==
    IF tree.docs # "absent" THEN walk_docs
    ELSE IF tree.doc # "absent" THEN walk_doc
    ELSE walk_checkout

\* full_find('conf.py', version): the matches under checkout_path(version).
full_find == walk_checkout

\* The list conf_file goes through: find's matches, full_find's when find has none.
conf_files == IF find = <<>> THEN full_find ELSE find

\* Mutant: "doc" is looked for within the first 70 characters.
doc_match_in_prefix(file) ==
    LET i == str_find(file, S_needle, 0)
    IN  i # -1 /\ i + Len(S_needle) <= DOC_SEARCH_START

\* file.find('doc', 70) != -1
doc_match(file) == str_find(file, S_needle, DOC_SEARCH_START) # -1

\* conf_file(version)
conf_file ==
    IF conf_py_file # <<>>
        THEN [kind |-> "path",
              path |-> path_join(checkout_path, <<"/">> \o conf_py_file)]
    ELSE IF Len(conf_files) = 1
        THEN [kind |-> "path", path |-> conf_files[1]]
    ELSE IF Len(conf_files) > 1
        THEN LET hits == {k \in 1..Len(conf_files) : doc_match(conf_files[k])}
             IN  IF hits # {}
                     THEN [kind |-> "path", path |-> conf_files[Min(hits)]]
                     ELSE NoPath
    ELSE [kind |-> "ProjectImportError", path |-> <<>>]

\* A caller resolves the conf file.  What it got is kept while the checkout
\* and the project stay as they were read; every write below drops it.
ConfFile ==
    /\ conf' = [op |-> "conf_file", files |-> conf_files, value |-> conf_file]
    /\ UNCHANGED <<checkout_root, conf_py_file, tree, listdir,
                   visVars, lockVars, relVars, verVars>>

\* A version of the repository is checked out or updated at its path: any
\* tree, listed in any order.
Checkout(root, t, order) ==
    /\ <<root, t, order>> # <<checkout_root, tree, listdir>>
    /\ checkout_root' = root
    /\ tree' = t
    /\ listdir' = order
    /\ conf' = NoConf
    /\ UNCHANGED <<conf_py_file, visVars, lockVars, relVars, verVars>>

\* The project's conf_py_file field is set or cleared.
SetConfPyFile(f) ==
    /\ conf_py_file # f
    /\ conf_py_file' = f
    /\ conf' = NoConf
    /\ UNCHANGED <<checkout_root, tree, listdir, visVars, lockVars, relVars, verVars>>

NextConf ==
    \/ ConfFile
    \/ \E root \in CheckoutRoots, t \in Trees, order \in ListdirOrders :
          Checkout(root, t, order)
    \/ \E f \in {<<>>, S_docs_conf_py} : SetConfPyFile(f)

SpecConf == Init /\ [][NextConf]_vars

(***************************************************************************)
(* The whole program                                                       *)
(***************************************************************************)
Next ==
    \/ NextVisibility
    \/ NextLock
    \/ NextRelationship
    \/ NextVersion
    \/ NextBranchName
    \/ NextDefaultBranch
    \/ NextConf

Spec == Init /\ [][Next]_vars


(***************************************************************************)
(* Claims about the visibility filter                                      *)
(***************************************************************************)
Live == {p \in Objects : ~project[p].skip}

Asked(user, tier) == queryset.op = tier /\ queryset.user = user

\* C1 (as stated): for every user argument, None included, and every tier,
\* the result of public/protected/private holds no project whose skip flag is
\* true.
C1_NoSkippedProjectInAnyResult ==
    \A u \in UserArgs, t \in Tiers :
        Asked(u, t) => \A p \in queryset.result : ~project[p].skip

\* C2 (as stated): an owner u of a private project p gets p from public(u)
\* whenever u is in p's owners, in whatever order the owner was added and the
\* project saved; public(None) never holds p.
C2_OwnerSeesPrivateInAnyOrder ==
    \A p \in Objects :
        project[p].privacy_level = PRIVATE =>
            /\ \A u \in users[p] : Asked(u, "public") => p \in queryset.result
            /\ Asked(NoUser, "public") => p \notin queryset.result

\* C2 (amended): an owner u of a private project p that is not skipped gets p
\* from public(u) once u holds the per-object view grant on p, which
\* Project.save assigns to every user who is an owner at the time of the
\* save; public(None) never holds a private project.
C2_OwnerWithGrantSeesPrivate ==
    \A p \in Objects :
        project[p].privacy_level = PRIVATE =>
            /\ \A u \in users[p] :
                   (Asked(u, "public") /\ <<u, p>> \in perms /\ ~project[p].skip)
                       => p \in queryset.result
            /\ Asked(NoUser, "public") => p \notin queryset.result

C2_Witness ==
    \E p \in Objects, u \in AuthUsers :
        /\ project[p].privacy_level = PRIVATE
        /\ ~project[p].skip
        /\ u \in users[p]
        /\ <<u, p>> \in perms
        /\ Asked(u, "public")
        /\ p \in queryset.result

\* C3 (as stated): for every user object u without the model-wide view
\* permission, public(u) is exactly the set of projects that are not skipped
\* and public, whatever u owns or holds grants on.
C3_PublicIsExactlyPublicLevel ==
    \A u \in AuthUsers \cup {AnonymousUser} :
        (Asked(u, "public") /\ u \notin global_perm)
            => queryset.result = {p \in Live : project[p].privacy_level = PUBLIC}

\* C3 (amended): for every user object u (not None) without the model-wide
\* view permission, public(u) is exactly the set of projects that are not
\* skipped and are either public or, when u is authenticated, carry a
\* per-object view grant for u.
C3_PublicIsPublicLevelPlusGrants ==
    \A u \in AuthUsers \cup {AnonymousUser} :
        (Asked(u, "public") /\ u \notin global_perm)
            => queryset.result =
                   {p \in Live : \/ project[p].privacy_level = PUBLIC
                                 \/ u \in AuthUsers /\ <<u, p>> \in perms}

C3_Witness ==
    \E u \in AuthUsers, p, q, r \in Objects :
        /\ u \notin global_perm
        /\ Asked(u, "public")
        /\ project[p].privacy_level = PRIVATE /\ p \in queryset.result
        /\ project[q].privacy_level = PUBLIC /\ project[q].skip
        /\ q \notin queryset.result
        /\ r \in queryset.result

\* C4: for a user holding the model-wide view permission the three tiers give
\* the same set, and that set is every project that is not skipped, whatever
\* its privacy level.
C4_GlobalPermSeesAllLiveInEveryTier ==
    \A u \in global_perm :
        /\ public(u) = Live
        /\ protected(u) = Live
        /\ private(u) = Live
        /\ \A t \in Tiers : Asked(u, t) => queryset.result = Live

C4_Witness ==
    \E u \in global_perm, p, q \in Objects :
        /\ Asked(u, "public")
        /\ project[p].privacy_level = PRIVATE /\ p \in queryset.result
        /\ project[q].skip /\ q \notin queryset.result

(***************************************************************************)
(* Claims about the checkout lock                                          *)
(***************************************************************************)
Holds(i, p) == pc[i] = "held" /\ target[i] = p

HeldByOther(i) == \E j \in Procs \ {i} : Holds(j, target[i])

C5_MutualExclusion ==
    \A i, j \in Procs : \A p \in Projects :
        (Holds(i, p) /\ Holds(j, p)) => i = j

C5_WaitIsBounded ==
    \A i \in Procs :
        /\ pc[i] = "acquiring" =>
               elapsed[i] < DEFAULT_TIMEOUT + DEFAULT_POLLING_INTERVAL
        /\ pc[i] = "failed" => elapsed[i] >= DEFAULT_TIMEOUT

C5_AcquireStep ==
    \A i \in Procs :
        pc[i] = "acquiring" =>
            \* it gets the lock only when no other process holds it
            /\ pc'[i] = "held" => ~HeldByOther(i)
            \* it fails only while another process holds it
            /\ pc'[i] = "failed" => HeldByOther(i)
            \* held by another and the timeout elapsed: its next step fails
            /\ (HeldByOther(i) /\ elapsed[i] >= DEFAULT_TIMEOUT /\ pc'[i] # pc[i])
                   => pc'[i] = "failed"
            \* held by another and the timeout not elapsed: it waits on
            /\ (HeldByOther(i) /\ elapsed[i] < DEFAULT_TIMEOUT)
                   => pc'[i] = "acquiring" /\ elapsed'[i] >= elapsed[i]

\* C5: no two processes hold the lock of the same project at once; a process
\* acquiring a held lock gets it only once the holder has released it, keeps
\* waiting while its timeout has not elapsed, never waits past its timeout,
\* and ends with LockTimeoutError when the timeout elapses with the lock
\* still held.
C5_SameProjectExclusionAndTimeout ==
    /\ [](C5_MutualExclusion /\ C5_WaitIsBounded)
    /\ [][C5_AcquireStep]_vars

C5_Witness ==
    \E i, j \in Procs :
        /\ i # j
        /\ Holds(j, target[i])
        /\ pc[i] = "failed"
        /\ elapsed[i] >= DEFAULT_TIMEOUT

C6_OtherProjectStep ==
    \A i \in Procs :
        /\ (pc[i] = "acquiring" /\ ~HeldByOther(i) /\ pc'[i] # pc[i])
               => pc'[i] = "held"
        /\ (pc[i] = "acquiring" /\ ~HeldByOther(i)) => elapsed'[i] <= elapsed[i]
        /\ (pc[i] # "failed" /\ pc'[i] = "failed") => HeldByOther(i)

\* C6: an acquire is never made to wait, and never fails, because the lock of
\* a different project is held: when no other process holds the lock of its
\* own project, the step of an acquiring process takes the lock.
C6_DifferentProjectsNeverBlock == [][C6_OtherProjectStep]_vars

C6_Witness ==
    \E i, j \in Procs :
        /\ i # j
        /\ pc[i] = "held" /\ pc[j] = "held"
        /\ target[i] # target[j]

C7_NoStaleMarker ==
    lockfiles = {lockobj[i].name : i \in {j \in Procs : pc[j] = "held"}}

C7_ExitStep ==
    \A i \in Procs :
        \* leaving the guarded section, either way, removes the marker
        /\ (pc[i] = "held" /\ pc'[i] # "held") =>
               /\ pc'[i] \in {"returned", "raised"}
               /\ lockobj[i].name \notin lockfiles'
        \* a process that failed to acquire touches no marker
        /\ ((pc[i] = "failed") # (pc'[i] = "failed")) =>
               lockfiles' = lockfiles
        \* once the marker is gone, the next attempt on the project succeeds
        /\ (pc[i] = "acquiring" /\ lockobj[i].name \notin lockfiles /\ pc'[i] # pc[i])
               => pc'[i] = "held"

C8_AtMostOneEdge ==
    /\ \A e \in Edges : relationship[e] <= 1
    /\ \A i \in Procs : relpc[i].at # "raised"

DocStartsAt(path, i) ==
    /\ i + 3 <= Len(path)
    /\ path[i + 1] = "d" /\ path[i + 2] = "o" /\ path[i + 3] = "c"

\* "doc" lies within the first 70 characters of the path
DocWithinFirst(path) == \E i \in 0..(DOC_SEARCH_START - 3) : DocStartsAt(path, i)

\* "doc" starts at character index 70 (counted from 0) or later
DocFromStart(path) == \E i \in DOC_SEARCH_START..Len(path) : DocStartsAt(path, i)

Resolved == conf.op = "conf_file" /\ conf_py_file = <<>>

C10_OneOrNoMatch ==
    Resolved =>
        /\ Len(conf.files) = 1 => conf.value = [kind |-> "path", path |-> conf.files[1]]
        /\ Len(conf.files) = 0 => conf.value.kind = "ProjectImportError"

\* C10 (as stated): with no conf_py_file and several conf.py matches, of
\* which some hold "doc" within the first 70 characters of their path,
\* conf_file returns such a match; with one match it returns it; with none in
\* the docs subtree and in the checkout it raises the missing-conf error.
C10_PrefersDocWithinFirst70 ==
    /\ C10_OneOrNoMatch
    /\ (/\ Resolved
        /\ Len(conf.files) > 1
        /\ \E k \in 1..Len(conf.files) : DocWithinFirst(conf.files[k]))
           => /\ conf.value.kind = "path"
              /\ \E k \in 1..Len(conf.files) : conf.files[k] = conf.value.path
              /\ DocWithinFirst(conf.value.path)

\* C10 (amended): with no conf_py_file and several conf.py matches, conf_file
\* returns the first match, in search order, whose path holds "doc" starting
\* at character index 70 or later, and returns None, raising nothing, when no
\* match does; with one match it returns it; with none it raises the
\* missing-conf error.
C10_PrefersDocFromIndex70 ==
    /\ C10_OneOrNoMatch
    /\ (Resolved /\ Len(conf.files) > 1) =>
           LET hits == {k \in 1..Len(conf.files) : DocFromStart(conf.files[k])}
           IN  /\ hits = {} => conf.value = NoPath
               /\ hits # {} =>
                      \E k \in hits :
                          /\ \A j \in hits : k <= j
                          /\ conf.value = [kind |-> "path", path |-> conf.files[k]]

C10_Witness ==
    /\ Resolved
    /\ Len(conf.files) > 1
    /\ ~DocFromStart(conf.files[1])
    /\ DocFromStart(conf.files[2])
    /\ conf.value = [kind |-> "path", path |-> conf.files[2]]

(***************************************************************************)
(* Claims about version_from_branch_name                                   *)
(***************************************************************************)
AskedBranch(p, branch) ==
    /\ returned.op = "version_from_branch_name"
    /\ returned.project = p
    /\ returned.branch = branch

\* The slugs of the active versions of p with that identifier.
ActiveWith(p, ident) ==
    {s \in VersionSlugs : versions[p][s] = "active" /\ identifier[p][s] = ident}

\* The call returns an active version of p whose identifier is the branch or
\* "remotes/origin/" + branch, and None when p has no such version.
C12_ReturnsAMatchOrNone ==
    \A p \in Projects, branch \in Branches :
        AskedBranch(p, branch) =>
            LET matches == ActiveWith(p, branch)
                               \cup ActiveWith(p, remote_identifier(branch))
            IN  /\ matches = {} => returned.value = None
                /\ matches # {} => returned.value \in matches

\* C12 (as stated): version_from_branch_name(p, b) returns an active version
\* of p whose identifier is b or "remotes/origin/" + b, None when there is
\* none, and, when active versions with both identifiers exist, the one
\* whose identifier is b, whatever the order the store keeps the two in.
C12_DirectMatchPreferred ==
    /\ C12_ReturnsAMatchOrNone
    /\ \A p \in Projects, branch \in Branches :
           (/\ AskedBranch(p, branch)
            /\ ActiveWith(p, branch) # {}
            /\ ActiveWith(p, remote_identifier(branch)) # {})
               => returned.value \in ActiveWith(p, branch)

(***************************************************************************)
(* Claims about get_default_branch                                         *)
(***************************************************************************)
AskedDefaultBranch(p) ==
    returned.op = "get_default_branch" /\ returned.project = p

\* With default_branch set the call returns it and does not call vcs_repo;
\* with it unset and a backend for the repo_type it returns the backend's
\* fallback branch; with it unset and no backend it raises and returns
\* nothing.
C13_ReturnsBranchOrRaises ==
    \A p \in Projects :
        AskedDefaultBranch(p) =>
            /\ Truthy(default_branch[p]) =>
                   returned.result = [value |-> default_branch[p], raised |-> None,
                                      resolved |-> FALSE]
            /\ (~Truthy(default_branch[p]) /\ repo_type[p] \in DOMAIN backend_cls) =>
                   /\ returned.result.value = backend_cls[repo_type[p]].fallback_branch
                   /\ returned.result.raised = None
            /\ (~Truthy(default_branch[p]) /\ repo_type[p] \notin DOMAIN backend_cls) =>
                   /\ returned.result.value = None
                   /\ returned.result.raised # None

\* C13 (as stated): get_default_branch(p) returns p.default_branch when it is
\* set, without resolving the backend; otherwise the fallback branch of the
\* backend registered for p.repo_type; and with default_branch unset and no
\* backend registered for p.repo_type it fails with the unsupported-backend
\* error.
C13_UnregisteredRaisesUnsupportedBackend ==
    /\ C13_ReturnsBranchOrRaises
    /\ \A p \in Projects :
           (/\ AskedDefaultBranch(p)
            /\ ~Truthy(default_branch[p])
            /\ repo_type[p] \notin DOMAIN backend_cls)
               => returned.result.raised = "UnsupportedBackendError"

(***************************************************************************)
(* Claims about Project.save                                               *)
(***************************************************************************)
\* Every row was written with a non-empty slug, the one slugify derives from
\* the project's name.
C11_RowsHaveSlug ==
    \A p \in Projects :
        project[p].exists =>
            /\ project[p].slug # <<>>
            /\ project[p].slug = slugify(GoodName(p))

\* A save that raised was one of an instance without a slug, and a raising
\* save leaves the rows, the owners and the grants as they were.
C11_RaisedOnlyWithoutSlug ==
    save_error.raised =>
        /\ save_error.project \in Projects
        /\ project[save_error.project].slug = <<>>
        /\ ~project[save_error.project].exists

C11_SaveStep ==
    /\ save_error'.raised =>
           /\ project' = project
           /\ perms' = perms
           /\ users' = users
    /\ \A p \in Projects :
           project'[p] # project[p] =>
               /\ ~save_error'.raised
               /\ project'[p].exists
               /\ project[p].slug = <<>> =>
                      \E name \in Names(p) :
                          /\ slugify(name) # <<>>
                          /\ project'[p].slug = slugify(name)
               /\ project[p].slug # <<>> => project'[p].slug = project[p].slug

\* C11: a save of a project with no slug whose name slugifies to the empty
\* string raises and leaves the project rows and the view grants unchanged,
\* so no row ever has an empty slug; a save of a project with no slug whose
\* name slugifies to a non-empty string writes the row with that slug.
C11_EmptySlugRaisesBeforeWrite ==
    /\ [](C11_RowsHaveSlug /\ C11_RaisedOnlyWithoutSlug)
    /\ [][C11_SaveStep]_vars

C11_Witness ==
    \E p, q \in Projects :
        /\ p # q
        /\ save_error = [raised |-> TRUE, project |-> p]
        /\ ~project[p].exists
        /\ project[q].exists /\ project[q].slug = slugify(GoodName(q))
        /\ \E u \in AuthUsers : <<u, q>> \in perms

\* A user with a grant on a project that is not skipped finds the project in
\* the result of each of the three filters.
C14_GrantKeepsVisible ==
    \A u \in AuthUsers, p \in Objects, t \in Tiers :
        (<<u, p>> \in perms /\ ~project[p].skip /\ Asked(u, t)) =>
            p \in queryset.result

\* C14: no add-owner, remove-owner or save takes a view grant away, so the
\* set of grants only grows; a user who owned a project at a save therefore
\* still finds it, when it is not skipped, in their filter results after
\* being removed from its owners and after later saves.
C14_GrantsOnlyGrow ==
    /\ [][perms \subseteq perms']_vars
    /\ []C14_GrantKeepsVisible

C14_Witness ==
    \E u \in AuthUsers, p \in Objects :
        /\ u \notin users[p]
        /\ <<u, p>> \in perms
        /\ project[p].privacy_level = PRIVATE
        /\ ~project[p].skip
        /\ Asked(u, "public")
        /\ p \in queryset.result

====
